---- MODULE Spec2Model ----
(***************************************************************************)
(* A model of fingermatch/match_fp.py: the nmap-os-db loader               *)
(* (get_matchpoints, load_fingerprints), the test-expression compiler      *)
(* (parse_test_expr, is_hex), the matching engine (parse_fp, handle_test)  *)
(* and the ranking loop of __main__.                                       *)
(*                                                                         *)
(* Strings are sequences of one-character strings, so that the parsing     *)
(* code is modelled character by character.  A Python exception or a       *)
(* failed assert is the value Err of an operator and pc = "error" of a     *)
(* run.                                                                    *)
(***************************************************************************)
EXTENDS Integers, Sequences, FiniteSets, TLC

VARIABLES
  pc,            \* where the run is: "expr" "compiled" "evaluated" "stored"
                 \* (compiler),
                 \* "table" "tabled" (get_matchpoints), "load" "loaded" (loader),
                 \* "match" "matched" (engine),
                 \* "rank" "ranked" (ranking), "error" (uncaught exception)
  test,          \* parse_test_expr: the expression text
  x,             \* the value a compiled lambda is applied to
  compiled,      \* parse_test_expr's result: names, test_exp, lambda
  res,           \* the lambda's result on x
  got_fp,        \* load_fingerprints: got_fp
  fp,            \* load_fingerprints: the record being filled (name, probes)
  block,         \* get_matchpoints: the lines of the file after "MatchPoints"
  started,       \* history: a Fingerprint line was read since the last boundary
  wf,            \* history: the corpus read so far is well formed
  recs,          \* history: the names of the complete records read, in order
  fingerprints,  \* the collection: sequence of [name, probes, score]
  matchpoints,   \* group -> (test -> points)
  max_points,    \* get_matchpoints's sum
  have_mp,       \* matchpoints and max_points are bound (a MatchPoints line was read)
  qprobes,       \* parse_fp: the query's fp.probes
  group_name,    \* parse_fp: the group being read, "" between groups
  ev,            \* parse_fp: the test last read (group, name, value), handed
                 \* to handle_test unless its name could not be read
  nev,           \* history: events handed to handle_test so far
  missed,        \* history: a fingerprint lacked the test of an earlier event
  fps,           \* __main__: the sorted list
  i,             \* __main__: the ranking loop's index
  report         \* __main__: the printed (score, name) lines

vars == <<pc, test, x, compiled, res, block, got_fp, fp, started, wf, recs,
          fingerprints, matchpoints, max_points, have_mp, qprobes, group_name,
          ev, nev, missed, fps, i, report>>

exprVars == <<test, x, compiled, res>>
loadVars == <<got_fp, fp, started, wf, recs>>
tableVars == <<block, matchpoints, max_points, have_mp>>
matchVars == <<qprobes, group_name, ev, nev, missed>>
rankVars == <<fps, i, report>>

\* a raised exception or a failed assert, as the value of an operator
Err == [ok |-> FALSE]

\* a probe group: None (R=N, no response) or a dictionary of tests
None == [present |-> FALSE]

Present(m) == [present |-> TRUE, tests |-> m]

\* d[k] = v on a dictionary
Put(d, k, v) == [kk \in DOMAIN d \cup {k} |-> IF kk = k THEN v ELSE d[kk]]

(***************************************************************************)
(* Sequences and characters                                                *)
(***************************************************************************)
Range(s) == {s[k] : k \in 1..Len(s)}

Min(a, b) == IF a <= b THEN a ELSE b

\* the characters of the model in code-point order (Python compares strings
\* by code point)
AsciiOrder ==
  <<"\"", "'", "+", "-", "0", "1", "2", "3", "4", "5", "6", "7", "8", "9",
    "<", "=", ">", "A", "B", "C", "D", "E", "F", "G", "N", "O", "R", "W", "X",
    "Y", "\\", "x", "|">>

Ord(c) == CHOOSE k \in 1..Len(AsciiOrder) : AsciiOrder[k] = c

IsAlnum(c) ==
  c \in {"0", "1", "2", "3", "4", "5", "6", "7", "8", "9",
         "A", "B", "C", "D", "E", "F", "G", "N", "O", "R", "W", "X", "Y", "x"}

\* s[from:] of Python, from counted from 1
Tail2(s, from) == SubSeq(s, from, Len(s))

\* Python's x > y on strings
RECURSIVE StrGreater(_, _)
StrGreater(a, b) ==
  IF a = <<>> THEN FALSE
  ELSE IF b = <<>> THEN TRUE
  ELSE IF a[1] # b[1] THEN Ord(a[1]) > Ord(b[1])
  ELSE StrGreater(Tail(a), Tail(b))

StrLess(a, b) == a # b /\ ~StrGreater(a, b)

\* str.split(sep): the pieces between the occurrences of sep
RECURSIVE SplitAcc(_, _, _)
SplitAcc(s, sep, cur) ==
  IF s = <<>> THEN <<cur>>
  ELSE IF s[1] = sep THEN <<cur>> \o SplitAcc(Tail(s), sep, <<>>)
  ELSE SplitAcc(Tail(s), sep, Append(cur, s[1]))

Split(s, sep) == SplitAcc(s, sep, <<>>)

\* str.find(c) != -1
Contains(s, c) == \E k \in 1..Len(s) : s[k] = c

(***************************************************************************)
(* int(x, 16) and is_hex                                                   *)
(***************************************************************************)
HexDigits == <<"0", "1", "2", "3", "4", "5", "6", "7", "8", "9",
               "A", "B", "C", "D", "E", "F">>

IsHexDigit(c) == \E k \in 1..16 : HexDigits[k] = c

DigitVal(c) == (CHOOSE k \in 1..16 : HexDigits[k] = c) - 1

RECURSIVE DigitsVal(_, _)
DigitsVal(s, acc) ==
  IF s = <<>> THEN acc ELSE DigitsVal(Tail(s), 16 * acc + DigitVal(s[1]))

\* int(s, 16): an optional sign, an optional 0x, then one hex digit or more
\* (the values the model draws hold no whitespace, no lower-case digit and
\* no underscore); Err is ValueError
IntBase16(s) ==
  LET signed == s # <<>> /\ s[1] \in {"+", "-"}
      s1 == IF signed THEN Tail(s) ELSE s
      prefixed == Len(s1) >= 2 /\ s1[1] = "0" /\ s1[2] = "x"
      s2 == IF prefixed THEN Tail2(s1, 3) ELSE s1
  IN IF s2 = <<>> \/ \E k \in 1..Len(s2) : ~IsHexDigit(s2[k]) THEN Err
     ELSE IF signed /\ s[1] = "-" THEN [ok |-> TRUE, val |-> 0 - DigitsVal(s2, 0)]
     ELSE [ok |-> TRUE, val |-> DigitsVal(s2, 0)]

is_hex(s) == IntBase16(s).ok

(***************************************************************************)
(* parse_test_expr                                                         *)
(***************************************************************************)
\* the loop that collects the test names: i and start are Python's, plus one;
\* Err (0 in SkipAlnum) is the IndexError of test[i] past the end or the
\* failed assert
RECURSIVE SkipAlnum(_, _)
SkipAlnum(t, k) ==
  IF k > Len(t) THEN 0
  ELSE IF IsAlnum(t[k]) THEN SkipAlnum(t, k + 1)
  ELSE k

RECURSIVE ParseNames(_, _, _, _)
ParseNames(t, k, start, names) ==
  IF k > Len(t) THEN Err
  ELSE IF t[k] = "=" THEN [ok |-> TRUE, names |-> names, at |-> k]
  ELSE LET j == SkipAlnum(t, k)
       IN IF j = 0 THEN Err
          ELSE IF t[j] \notin {"=", "|"} THEN Err
          ELSE IF t[j] = "|"
               THEN ParseNames(t, j + 1, j + 1, Append(names, SubSeq(t, start, j - 1)))
               ELSE ParseNames(t, j, j, Append(names, SubSeq(t, start, j - 1)))

\* eval of the text "%s" % s: the string that the literal between the double
\* quotes denotes.  A double quote in s ends the literal early and a backslash
\* at the end of s escapes the closing quote: both are a SyntaxError (Err).
\* A backslash before a backslash or a quote denotes that character; before
\* any other character of the model's expressions it stays (the expressions
\* drawn hold at most one double quote, and no digit and no x after a
\* backslash).
RECURSIVE Unescape(_)
Unescape(s) ==
  IF s = <<>> THEN [ok |-> TRUE, str |-> <<>>]
  ELSE IF s[1] = "\"" THEN Err
  ELSE IF s[1] # "\\"
  THEN LET r == Unescape(Tail(s))
       IN IF ~r.ok THEN Err ELSE [ok |-> TRUE, str |-> <<s[1]>> \o r.str]
  ELSE IF Len(s) = 1 THEN Err
  ELSE LET r == Unescape(Tail2(s, 3))
       IN IF ~r.ok THEN Err
          ELSE IF s[2] \in {"\\", "\"", "'"}
          THEN [ok |-> TRUE, str |-> <<s[2]>> \o r.str]
          ELSE [ok |-> TRUE, str |-> <<s[1], s[2]>> \o r.str]

\* one alternative of the expression as the piece of lambda code it becomes
CompileAlt(exp0) ==
  LET exp == IF exp0 = <<>> THEN <<"'", "'">> ELSE exp0
  IN IF exp[1] \in {">", "<"}
     THEN IF ~Unescape(Tail(exp)).ok THEN Err
          ELSE [ok |-> TRUE, kind |-> "cmp", op |-> exp[1],
                lit |-> Unescape(Tail(exp)).str]
     ELSE IF Contains(exp, "-")
     THEN LET parts == Split(exp, "-")
          IN IF Len(parts) # 2 THEN Err
             ELSE IF ~IntBase16(parts[1]).ok \/ ~IntBase16(parts[2]).ok THEN Err
             ELSE [ok |-> TRUE, kind |-> "range", lo |-> IntBase16(parts[1]).val,
                   hi |-> IntBase16(parts[2]).val]
     ELSE IF ~Unescape(exp).ok THEN Err
     ELSE [ok |-> TRUE, kind |-> "eq", lit |-> Unescape(exp).str]

\* a range that leaves its upper bound out
HexRangeOpenHolds(lo, hi, v) ==
  is_hex(v) /\ IntBase16(v).val >= lo /\ IntBase16(v).val < hi

\* is_hex(x) and int(x, 16) >= lo and int(x, 16) <= hi
HexRangeHolds(lo, hi, v) ==
  is_hex(v) /\ IntBase16(v).val >= lo /\ IntBase16(v).val <= hi

AltHolds(alt, v) ==
  IF alt.kind = "cmp"
  THEN IF alt.op = ">" THEN StrGreater(v, alt.lit) ELSE StrLess(v, alt.lit)
  ELSE IF alt.kind = "range" THEN HexRangeHolds(alt.lo, alt.hi, v)
  ELSE v = alt.lit

\* the lambda: the alternatives joined by "or"
Holds(lam, v) == \E k \in 1..Len(lam) : AltHolds(lam[k], v)

parse_test_expr(t) ==
  LET pn == ParseNames(t, 1, 1, <<>>)
  IN IF ~pn.ok THEN Err
     ELSE LET test_exp == Tail2(t, pn.at + 1)
              exps == Split(test_exp, "|")
              alts == [k \in 1..Len(exps) |-> CompileAlt(exps[k])]
          IN IF \E k \in 1..Len(exps) : ~alts[k].ok THEN Err
             ELSE [ok |-> TRUE, names |-> pn.names, exp |-> test_exp, lam |-> alts]

(***************************************************************************)
(* The compiler on its own: an expression is compiled, then its lambda is  *)
(* applied to a value.                                                     *)
(***************************************************************************)
MaxValLen == 2

ValChars == {"0", "3", "4", "5", "6", "B", "F", "G", "-", "+", "x"}

Strs(n) == UNION {[1..m -> ValChars] : m \in 0..n}

\* the values tried: every short string, every short string after "5B", the
\* text of two quotes and two texts with backslashes
Values ==
  Strs(MaxValLen) \cup {<<"5", "B">> \o v : v \in Strs(MaxValLen)}
  \cup {<<"'", "'">>, <<"5", "\\">>, <<"5", "\\", "\\">>}

HexBounds == {<<"0">>, <<"A">>, <<"4", "6">>,
              <<"5", "B", "4", "0">>, <<"5", "B", "4", "5">>}

RangeExpr(lo, hi) == <<"W", "1", "=">> \o lo \o <<"-">> \o hi

Exprs ==
  {RangeExpr(lo, hi) : lo \in HexBounds, hi \in HexBounds} \cup
  { <<"W", "1", "|", "W", "2", "=", "0", "|", "5", "B", "4", "0">>,
    <<"O", "1", "=">>,
    <<"O", "1", "=", "|", "5">>,
    <<"W", "1", "=", ">", "5">>,
    <<"W", "1", "=", "<", "5">>,
    <<"W", "1", "=", "5", "-">>,
    <<"W", "1">>,
    <<"R", "=", "N">>,
    <<"R", "|", "D", "F", "=", "0", "|", "5", "B", "4", "0">>,
    <<"W", "0", "|", "D", "F", "=", "Y">>,
    <<"D", "F", "|", "R", "=", "N">>,
    <<"R", "|", "D", "F", "=", "N">>,
    <<"O", "1", "=", "5", "\\", "\\">>,
    <<"O", "1", "=", "5", "\\">>,
    <<"O", "1", "=", "5", "\"">> }

\* the variables of the compiler, the loader, the engine and the ranking
\* before each is run
ExprIdle == test = <<>> /\ x = <<>> /\ compiled = Err /\ res = FALSE

LoadIdle ==
  /\ got_fp = FALSE /\ fp = [name |-> "", probes |-> <<>>, score |-> 0]
  /\ started = FALSE /\ wf = TRUE /\ recs = <<>>

TableIdle ==
  block = <<>> /\ matchpoints = <<>> /\ max_points = 0 /\ have_mp = FALSE

MatchIdle ==
  qprobes = <<>> /\ group_name = "" /\ ev = <<>> /\ nev = 0 /\ missed = FALSE

RankIdle == fps = <<>> /\ i = 0 /\ report = <<>>

InitExpr ==
  /\ pc = "expr"
  /\ test \in Exprs
  /\ x \in Values
  /\ compiled = Err
  /\ res = FALSE
  /\ fingerprints = <<>>
  /\ LoadIdle /\ TableIdle /\ MatchIdle /\ RankIdle

Compile ==
  /\ pc = "expr"
  /\ compiled' = parse_test_expr(test)
  /\ pc' = IF compiled'.ok THEN "compiled" ELSE "error"
  /\ UNCHANGED <<test, x, res, fingerprints, loadVars, tableVars, matchVars,
                 rankVars>>

Evaluate ==
  /\ pc = "compiled"
  /\ res' = Holds(compiled.lam, x)
  /\ pc' = "evaluated"
  /\ UNCHANGED <<test, x, compiled, fingerprints, loadVars, tableVars,
                 matchVars, rankVars>>

(***************************************************************************)
(* What "parses as a base-16 integer v" means, stated positionally         *)
(***************************************************************************)
RECURSIVE Pow16(_)
Pow16(n) == IF n = 0 THEN 1 ELSE 16 * Pow16(n - 1)

RECURSIVE PosSum(_, _)
PosSum(s, k) ==
  IF k > Len(s) THEN 0
  ELSE (CHOOSE d \in 0..15 : HexDigits[d + 1] = s[k]) * Pow16(Len(s) - k)
       + PosSum(s, k + 1)

Unsigned(s) == IF s # <<>> /\ s[1] \in {"+", "-"} THEN Tail(s) ELSE s

Unprefixed(s) ==
  IF Len(s) >= 2 /\ s[1] = "0" /\ s[2] = "x" THEN SubSeq(s, 3, Len(s)) ELSE s

Base16Text(s) ==
  /\ Unprefixed(Unsigned(s)) # <<>>
  /\ Range(Unprefixed(Unsigned(s))) \subseteq Range(HexDigits)

Base16Value(s) ==
  IF s[1] = "-" THEN 0 - PosSum(Unprefixed(Unsigned(s)), 1)
  ELSE PosSum(Unprefixed(Unsigned(s)), 1)

InHexRange(lo, hi, v) ==
  /\ Base16Text(v)
  /\ Base16Value(lo) <= Base16Value(v)
  /\ Base16Value(v) <= Base16Value(hi)

W1_5B40_5B45 == RangeExpr(<<"5", "B", "4", "0">>, <<"5", "B", "4", "5">>)

\* C10: a range alternative lo-hi holds on a value exactly when the value
\* parses as a base-16 integer v with lo <= v <= hi, both bounds inclusive,
\* and is false on a value that does not parse; 5B40-5B45 accepts 5B40 and
\* 5B45 and rejects 5B3F, 5B46 and non-hex input.
C10_HexRange ==
  pc = "evaluated" =>
    /\ \A lo \in HexBounds, hi \in HexBounds :
         test = RangeExpr(lo, hi) => (res <=> InHexRange(lo, hi, x))
    /\ test = W1_5B40_5B45 =>
         /\ x \in {<<"5", "B", "4", "0">>, <<"5", "B", "4", "5">>} => res
         /\ x \in {<<"5", "B", "3", "F">>, <<"5", "B", "4", "6">>,
                   <<"5", "B", "G">>, <<>>, <<"G">>} => ~res

C10_Witness ==
  /\ pc = "evaluated"
  /\ test = W1_5B40_5B45
  /\ x = <<"5", "B", "4", "5">>
  /\ res

(***************************************************************************)
(* The taxonomy: two of known_tests's thirteen groups, one without an R    *)
(* test (OPS) and one with it (T1), each with the first tests of its list. *)
(***************************************************************************)
R == <<"R">>
DF == <<"D", "F">>
O1 == <<"O", "1">>
W0 == <<"W", "0">>
XX == <<"X", "X">>
V == <<"V">>
Y == <<"Y">>
N == <<"N">>

KnownGroups == {"OPS", "T1"}

known_tests == [g \in KnownGroups |-> IF g = "OPS" THEN {O1} ELSE {R, DF}]

fp_known_tests ==
  [g \in KnownGroups \cup {"SCAN"} |-> IF g = "SCAN" THEN {V} ELSE known_tests[g]]

\* the test names accepted in any group: ['W0', 'W7', 'W8', 'W9']
Exceptions == {W0, <<"W", "7">>, <<"W", "8">>, <<"W", "9">>}

(***************************************************************************)
(* get_matchpoints                                                         *)
(***************************************************************************)
DecDigits == <<"0", "1", "2", "3", "4", "5", "6", "7", "8", "9">>

RECURSIVE DecVal(_, _)
DecVal(s, acc) ==
  IF s = <<>> THEN acc
  ELSE DecVal(Tail(s), 10 * acc + (CHOOSE d \in 0..9 : DecDigits[d + 1] = s[1]))

\* int(s): an optional sign, then one decimal digit or more
IntBase10(s) ==
  LET signed == s # <<>> /\ s[1] \in {"+", "-"}
      s1 == IF signed THEN Tail(s) ELSE s
  IN IF s1 = <<>> \/ ~(Range(s1) \subseteq Range(DecDigits)) THEN Err
     ELSE IF signed /\ s[1] = "-" THEN [ok |-> TRUE, val |-> 0 - DecVal(s1, 0)]
     ELSE [ok |-> TRUE, val |-> DecVal(s1, 0)]

\* the tests of one line of the block, read in order into the group's
\* dictionary d; the assert on line 429 looks the whole "name=points" text up,
\* not the name
RECURSIVE MpTests(_, _, _, _)
MpTests(g, tests, d, maxp) ==
  IF tests = <<>> THEN [ok |-> TRUE, d |-> d, max_points |-> maxp]
  ELSE LET t == tests[1]
           parts == Split(t, "=")
       IN IF Len(parts) # 2 THEN Err
          ELSE IF t \in DOMAIN d THEN Err
          ELSE IF parts[1] \notin known_tests[g] THEN Err
          ELSE IF ~IntBase10(parts[2]).ok THEN Err
          ELSE MpTests(g, Tail(tests), Put(d, parts[1], IntBase10(parts[2]).val),
                       maxp + IntBase10(parts[2]).val)

\* a block is the lines after "MatchPoints": each a blank line or a group
\* with its tests (the line split at "(" and at "%"); the end of the block
\* without a blank line is the end of the file
RECURSIVE MpLines(_, _, _, _)
MpLines(blk, k, mp, maxp) ==
  IF k > Len(blk) THEN Err
  ELSE IF blk[k].blank
  THEN [ok |-> TRUE, max_points |-> maxp, matchpoints |-> mp, lines_read |-> k]
  ELSE LET g == blk[k].group
       IN IF g \in DOMAIN mp THEN Err
          ELSE IF g \notin KnownGroups THEN Err
          ELSE LET r == MpTests(g, blk[k].tests, <<>>, maxp)
               IN IF ~r.ok THEN Err
                  ELSE MpLines(blk, k + 1, Put(mp, g, r.d), r.max_points)

get_matchpoints(blk) == MpLines(blk, 1, <<>>, 0)

(***************************************************************************)
(* load_fingerprints                                                       *)
(***************************************************************************)
Fingerprint == [name |-> "", probes |-> <<>>, score |-> 0]

\* the names of one entry, in order, written into the group's value pg
RECURSIVE LoadNames(_, _, _, _, _)
LoadNames(g, names, exp, lam, pg) ==
  IF names = <<>> THEN [ok |-> TRUE, pg |-> pg]
  ELSE IF ~pg.present THEN Err          \* "test_name in None": TypeError
  ELSE IF names[1] = R /\ exp = N THEN LoadNames(g, Tail(names), exp, lam, None)
  ELSE IF names[1] \notin Exceptions /\ names[1] \notin known_tests[g] THEN Err
  ELSE LoadNames(g, Tail(names), exp, lam,
                 Present(Put(pg.tests, names[1], lam)))

\* the entries of a group line (the text between the parentheses split at "%")
RECURSIVE LoadEntries(_, _, _)
LoadEntries(g, entries, pg) ==
  IF entries = <<>> THEN [ok |-> TRUE, pg |-> pg]
  ELSE IF entries[1] = <<>> THEN LoadEntries(g, Tail(entries), None)
  ELSE LET c == parse_test_expr(entries[1])
       IN IF ~c.ok THEN Err
          ELSE LET r == LoadNames(g, c.names, c.exp, c.lam, pg)
               IN IF ~r.ok THEN Err ELSE LoadEntries(g, Tail(entries), r.pg)

\* lines 626-652: a group line read into fp.probes
LoadGroup(probes, g, entries) ==
  IF g \in DOMAIN probes THEN Err
  ELSE LET r == LoadEntries(g, entries, Present(<<>>))
       IN IF ~r.ok THEN Err ELSE [ok |-> TRUE, probes |-> Put(probes, g, r.pg)]

\* a boundary that registers whatever was collected
AnyRecord(probes) == TRUE

\* line 605: all(test in fp.probes for test in known_tests)
AllKnownGroups(probes) == \A g \in KnownGroups : g \in DOMAIN probes

(***************************************************************************)
(* The compiler in the loader: the expression just compiled and evaluated  *)
(* is the one entry of a line of group g of a fresh record.                *)
(***************************************************************************)
Store(g) ==
  /\ pc = "evaluated"
  /\ LET r == LoadGroup(Fingerprint.probes, g, <<test>>)
     IN IF r.ok
        THEN fp' = [fp EXCEPT !.probes = r.probes] /\ pc' = "stored"
        ELSE pc' = "error" /\ UNCHANGED fp
  /\ UNCHANGED <<test, x, compiled, res, got_fp, started, wf, recs,
                 fingerprints, tableVars, matchVars, rankVars>>

NextExpr == Compile \/ Evaluate \/ \E g \in KnownGroups : Store(g)

SpecExpr == InitExpr /\ [][NextExpr]_vars

(***************************************************************************)
(* What an entry n1|n2|...=a1|a2|... denotes: its names, its alternatives, *)
(* and when an alternative holds on a value                                *)
(***************************************************************************)
HasEq(t) == \E k \in 1..Len(t) : t[k] = "="

FirstEq(t) == CHOOSE k \in 1..Len(t) : t[k] = "=" /\ \A j \in 1..(k - 1) : t[j] # "="

EntryNames(t) == Split(SubSeq(t, 1, FirstEq(t) - 1), "|")

EntryAlts(t) == Split(SubSeq(t, FirstEq(t) + 1, Len(t)), "|")

IsCompare(a) == a # <<>> /\ a[1] \in {">", "<"}

IsRange(a) == ~IsCompare(a) /\ \E k \in 2..Len(a) : a[k] = "-"

IsExact(a) == a # <<>> /\ ~IsCompare(a) /\ ~IsRange(a)

\* a range alternative made of two base-16 texts
GoodRange(a) ==
  /\ Len(Split(a, "-")) = 2
  /\ Base16Text(Split(a, "-")[1])
  /\ Base16Text(Split(a, "-")[2])

AltDenotes(a, v) ==
  IF a = <<>> THEN v = <<>>
  ELSE IF IsCompare(a)
  THEN IF a[1] = ">" THEN StrGreater(v, Tail(a)) ELSE StrLess(v, Tail(a))
  ELSE IF IsRange(a) THEN InHexRange(Split(a, "-")[1], Split(a, "-")[2], v)
  ELSE v = a

\* an entry of non-empty alphanumeric names and of alternatives that are
\* empty, comparisons, good ranges or exact texts
WellFormedEntry(t) ==
  /\ HasEq(t)
  /\ \A k \in 1..Len(EntryNames(t)) :
       /\ EntryNames(t)[k] # <<>>
       /\ \A j \in 1..Len(EntryNames(t)[k]) : IsAlnum(EntryNames(t)[k][j])
  /\ \A k \in 1..Len(EntryAlts(t)) : IsRange(EntryAlts(t)[k]) => GoodRange(EntryAlts(t)[k])

\* the entry is the Absent rule R=N, which stores no predicate
AbsentEntry(t) == EntryAlts(t) = <<N>> /\ R \in Range(EntryNames(t))

\* C11: a well-formed entry n1|n2|...=a1|a2|... compiles; its name list is
\* n1, n2, ... in order; its predicate holds on a value exactly when one of
\* the alternatives holds on it (an exact alternative holds when the value
\* equals it); and the loader stores that predicate under every listed name
\* of the group.  W1|W2=0|5B40 gives the names W1, W2 and a predicate true
\* exactly on 0 and 5B40.
C11_Compilation ==
  WellFormedEntry(test) =>
    /\ pc # "expr" => compiled.ok
    /\ pc \in {"compiled", "evaluated", "stored"} => compiled.names = EntryNames(test)
    /\ pc \in {"evaluated", "stored"} =>
         (res <=> \E k \in 1..Len(EntryAlts(test)) : AltDenotes(EntryAlts(test)[k], x))
    /\ (pc = "stored" /\ ~AbsentEntry(test)) =>
         \A g \in DOMAIN fp.probes :
           /\ fp.probes[g].present
           /\ \A k \in 1..Len(EntryNames(test)) :
                /\ EntryNames(test)[k] \in DOMAIN fp.probes[g].tests
                /\ fp.probes[g].tests[EntryNames(test)[k]] = compiled.lam
    /\ (pc = "evaluated"
        /\ test = <<"W", "1", "|", "W", "2", "=", "0", "|", "5", "B", "4", "0">>) =>
         /\ compiled.names = << <<"W", "1">>, <<"W", "2">> >>
         /\ res <=> x \in {<<"0">>, <<"5", "B", "4", "0">>}

\* the entry has an empty alternative / has empty alternatives only
SomeEmptyAlt(t) == \E k \in 1..Len(EntryAlts(t)) : EntryAlts(t)[k] = <<>>

AllEmptyAlts(t) == \A k \in 1..Len(EntryAlts(t)) : EntryAlts(t)[k] = <<>>

\* C14: an empty alternative of a reference expression (O1= or O1=|5) holds
\* on the empty value, which therefore satisfies the predicate, and on no
\* other value: the predicate of O1= is false on every non-empty value.
C14_MatchesEmpty ==
  (pc \in {"evaluated", "stored"} /\ WellFormedEntry(test)) =>
    /\ (SomeEmptyAlt(test) /\ x = <<>>) => res
    /\ (AllEmptyAlts(test) /\ x # <<>>) => ~res

(***************************************************************************)
(* The lines a corpus is made of                                           *)
(***************************************************************************)
MaxRecs == 2
MaxBlock == 2

\* a group line: the group before "(" and the entries between the "%"
GroupLine(g, tests) == [group |-> g, tests |-> tests]

\* one line of a MatchPoints block
MpLine(g, tests) == [blank |-> FALSE, group |-> g, tests |-> tests]

MpBlank == [blank |-> TRUE, group |-> "", tests |-> <<>>]

Eq(name, text) == name \o <<"=">> \o text

MpLineSet ==
  { MpLine("T1", <<Eq(R, <<"2">>)>>),
    MpLine("T1", <<Eq(R, <<"2">>), Eq(DF, <<"3">>)>>),
    MpLine("T1", <<Eq(R, <<"-", "2">>), Eq(DF, <<"3">>)>>),
    MpLine("T1", <<Eq(R, <<"2">>), Eq(R, <<"1">>)>>),
    MpLine("OPS", <<Eq(O1, <<"5">>)>>),
    MpLine("OPS", <<Eq(R, <<"1">>)>>),
    MpLine("XX", <<Eq(O1, <<"1">>)>>) }

\* a block with its blank line, or cut short by the end of the file
Blocks ==
  LET body == UNION {[1..n -> MpLineSet] : n \in 0..MaxBlock}
  IN {Append(b, MpBlank) : b \in body} \cup body

\* the group lines the engine's reference fingerprints are made of
RefGroupLines ==
  { GroupLine("T1", <<Eq(R, Y)>>),
    GroupLine("T1", <<Eq(R, N)>>),
    GroupLine("T1", <<Eq(DF, Y)>>),
    GroupLine("T1", <<Eq(R, <<"N", "|", "Y">>), Eq(DF, N)>>),
    GroupLine("OPS", <<Eq(O1, Y)>>),
    GroupLine("OPS", <<<<>>>>) }

\* the group lines the loader is fed: complete and absent groups, a test of
\* the exception set, an unknown test, a test after R=N, a bad expression
GroupLines ==
  { GroupLine("T1", <<Eq(R, Y), Eq(DF, Y)>>),
    GroupLine("T1", <<Eq(R, N)>>),
    GroupLine("T1", <<Eq(W0, Y)>>),
    GroupLine("T1", <<Eq(XX, Y)>>),
    GroupLine("T1", <<Eq(R, N), Eq(DF, Y)>>),
    GroupLine("OPS", <<Eq(O1, Y)>>),
    GroupLine("OPS", <<<<>>>>),
    GroupLine("OPS", <<Eq(O1, <<"5", "-">>)>>) }

\* the blocks the loader is fed: a good one and one cut by the end of the file
LoadBlocks ==
  { <<MpLine("T1", <<Eq(R, <<"2">>), Eq(DF, <<"3">>)>>),
      MpLine("OPS", <<Eq(O1, <<"5">>)>>), MpBlank>>,
    <<MpLine("T1", <<Eq(R, <<"2">>), Eq(DF, <<"3">>)>>)>> }

(***************************************************************************)
(* The loader, one line of the file per step: each action is one pass of   *)
(* the while loop of load_fingerprints, taken on the kind of line read.    *)
(***************************************************************************)
InitLoad ==
  /\ pc = "load"
  /\ fingerprints = <<>>
  /\ ExprIdle /\ LoadIdle /\ TableIdle /\ MatchIdle /\ RankIdle

\* reading goes on while the collection is below the bound of the model
MoreLines == pc = "load" /\ Len(fingerprints) < MaxRecs

\* a blank line or the end of the file: the end of a fingerprint entry
ReadBoundary(eof) ==
  /\ pc = "load"
  /\ eof \/ Len(fingerprints) < MaxRecs
  /\ IF got_fp /\ ~AllKnownGroups(fp.probes)
     THEN pc' = "error" /\ UNCHANGED <<fingerprints, fp>>
     ELSE /\ IF got_fp
             THEN fingerprints' = Append(fingerprints, fp) /\ fp' = Fingerprint
             ELSE UNCHANGED <<fingerprints, fp>>
          \* the return statement names matchpoints and max_points
          /\ pc' = IF ~eof THEN "load" ELSE IF have_mp THEN "loaded" ELSE "error"
  /\ started' = FALSE
  /\ recs' = IF started /\ AllKnownGroups(fp.probes)
             THEN Append(recs, fp.name) ELSE recs
  /\ wf' = (wf /\ (started => AllKnownGroups(fp.probes)) /\ (eof => have_mp))
  /\ UNCHANGED <<got_fp, exprVars, tableVars, matchVars, rankVars>>

ReadComment ==
  /\ MoreLines
  /\ UNCHANGED <<pc, got_fp, fp, started, wf, recs, fingerprints, exprVars,
                 tableVars, matchVars, rankVars>>

ReadMatchPoints(b) ==
  /\ MoreLines
  /\ LET r == get_matchpoints(b)
     IN /\ IF r.ok
           THEN /\ matchpoints' = r.matchpoints
                /\ max_points' = r.max_points
                /\ have_mp' = TRUE
                /\ block' = b
                /\ pc' = "load"
           ELSE pc' = "error" /\ UNCHANGED tableVars
        /\ wf' = (wf /\ r.ok /\ ~have_mp /\ ~started /\ recs = <<>>)
  /\ UNCHANGED <<got_fp, fp, started, recs, fingerprints, exprVars, matchVars,
                 rankVars>>

ReadFingerprint(name) ==
  /\ MoreLines
  /\ fp' = [fp EXCEPT !.name = name]
  /\ started' = TRUE
  /\ wf' = (wf /\ have_mp /\ ~started /\ fp.probes = <<>>)
  /\ UNCHANGED <<pc, got_fp, recs, fingerprints, exprVars, tableVars, matchVars,
                 rankVars>>

\* a Class or a CPE line: the annotations are not part of the model
ReadAnnotation ==
  /\ MoreLines
  /\ wf' = (wf /\ started)
  /\ UNCHANGED <<pc, got_fp, fp, started, recs, fingerprints, exprVars,
                 tableVars, matchVars, rankVars>>

ReadGroup(l) ==
  /\ MoreLines
  /\ LET r == LoadGroup(fp.probes, l.group, l.tests)
     IN /\ IF r.ok
           THEN fp' = [fp EXCEPT !.probes = r.probes] /\ got_fp' = TRUE /\ pc' = "load"
           ELSE pc' = "error" /\ UNCHANGED <<fp, got_fp>>
        /\ wf' = (wf /\ started /\ r.ok)
  /\ UNCHANGED <<started, recs, fingerprints, exprVars, tableVars, matchVars,
                 rankVars>>

\* any other line: sys.exit
ReadStrange ==
  /\ MoreLines
  /\ pc' = "error"
  /\ wf' = FALSE
  /\ UNCHANGED <<got_fp, fp, started, recs, fingerprints, exprVars, tableVars,
                 matchVars, rankVars>>

NextLoad ==
  \/ \E eof \in BOOLEAN : ReadBoundary(eof)
  \/ ReadComment
  \/ \E b \in LoadBlocks : ReadMatchPoints(b)
  \/ \E n \in {"A", "B"} : ReadFingerprint(n)
  \/ ReadAnnotation
  \/ \E l \in GroupLines : ReadGroup(l)
  \/ ReadStrange

SpecLoad == InitLoad /\ [][NextLoad]_vars

(***************************************************************************)
(* get_matchpoints on its own: a block is read into the point table.       *)
(***************************************************************************)
InitTable ==
  /\ pc = "table"
  /\ block \in Blocks
  /\ matchpoints = <<>> /\ max_points = 0 /\ have_mp = FALSE
  /\ fingerprints = <<>>
  /\ ExprIdle /\ LoadIdle /\ MatchIdle /\ RankIdle

ReadTable ==
  /\ pc = "table"
  /\ LET r == get_matchpoints(block)
     IN IF r.ok
        THEN /\ matchpoints' = r.matchpoints
             /\ max_points' = r.max_points
             /\ have_mp' = TRUE
             /\ pc' = "tabled"
        ELSE pc' = "error" /\ UNCHANGED <<matchpoints, max_points, have_mp>>
  /\ UNCHANGED <<block, fingerprints, exprVars, loadVars, matchVars, rankVars>>

NextTable == ReadTable

SpecTable == InitTable /\ [][NextTable]_vars

\* sum(d.values())
RECURSIVE SumValues(_)
SumValues(d) ==
  IF DOMAIN d = {} THEN 0
  ELSE LET k == CHOOSE kk \in DOMAIN d : TRUE
       IN d[k] + SumValues([kk \in DOMAIN d \ {k} |-> d[kk]])

RECURSIVE TableSum(_)
TableSum(mp) ==
  IF DOMAIN mp = {} THEN 0
  ELSE LET g == CHOOSE gg \in DOMAIN mp : TRUE
       IN SumValues(mp[g]) + TableSum([gg \in DOMAIN mp \ {g} |-> mp[gg]])

(***************************************************************************)
(* The loader's claims                                                     *)
(***************************************************************************)
Names(coll) == [k \in 1..Len(coll) |-> coll[k].name]

\* C5: during loading and after it, every fingerprint of the collection has
\* an entry, None or a dictionary, for every group of known_tests, and every
\* test name of a dictionary is of the group's list or of the exception set.
C5_Complete ==
  \A k \in 1..Len(fingerprints) :
    \A g \in KnownGroups :
      /\ g \in DOMAIN fingerprints[k].probes
      /\ fingerprints[k].probes[g].present =>
           DOMAIN fingerprints[k].probes[g].tests
             \subseteq known_tests[g] \cup Exceptions

C5_Witness ==
  /\ pc = "load"
  /\ Len(fingerprints) = 2
  /\ fingerprints[1].probes["T1"].present
  /\ W0 \in DOMAIN fingerprints[1].probes["T1"].tests
  /\ ~fingerprints[2].probes["OPS"].present

\* C6: a record begun by a Fingerprint line that reaches a blank line or the
\* end of the file with a group of known_tests missing aborts the load, and
\* nothing is registered at that boundary.
C6_IncompleteFatal ==
  [][(started /\ ~started' /\ ~AllKnownGroups(fp.probes))
       => (pc' = "error" /\ fingerprints' = fingerprints)]_vars

\* C7: a corpus of a MatchPoints block and N complete records, separated by
\* blank lines and ended by a blank line or by the end of the file, loads
\* without error into exactly those N fingerprints, in file order.
C7_OnePerRecord ==
  wf => /\ pc # "error"
        /\ Names(fingerprints) = recs

\* C9: the max_points that get_matchpoints returns is the sum of the points
\* stored in the table it returns.
C9_MaxPointsIsSum == pc = "tabled" => max_points = TableSum(matchpoints)

\* the lines of a block before its blank line
BodyLen(blk) ==
  IF \E k \in 1..Len(blk) : blk[k].blank
  THEN (CHOOSE k \in 1..Len(blk) : blk[k].blank /\ \A j \in 1..(k - 1) : ~blk[j].blank) - 1
  ELSE Len(blk)

TestName(t) == Split(t, "=")[1]

GroupTwice(blk) ==
  \E j, k \in 1..BodyLen(blk) : j < k /\ blk[j].group = blk[k].group

TestTwice(blk) ==
  \E l \in 1..BodyLen(blk) :
    \E j, k \in 1..Len(blk[l].tests) :
      j < k /\ TestName(blk[l].tests[j]) = TestName(blk[l].tests[k])

UnknownGroup(blk) == \E l \in 1..BodyLen(blk) : blk[l].group \notin KnownGroups

UnknownTest(blk) ==
  \E l \in 1..BodyLen(blk) :
    /\ blk[l].group \in KnownGroups
    /\ \E k \in 1..Len(blk[l].tests) :
         TestName(blk[l].tests[k]) \notin known_tests[blk[l].group]

CutShort(blk) == \A k \in 1..Len(blk) : ~blk[k].blank

\* C15: a block with a group defined twice, a test name defined twice in one
\* group, an unknown group, an unknown test name of its group, or without its
\* blank line before the end of the input aborts the load, and no point table
\* is returned.
C15_BlockValidated ==
  (/\ pc # "table"
   /\ \/ GroupTwice(block) \/ TestTwice(block) \/ UnknownGroup(block)
      \/ UnknownTest(block) \/ CutShort(block)) =>
    (pc = "error" /\ ~have_mp)

(***************************************************************************)
(* handle_test                                                             *)
(***************************************************************************)
\* lines 663-669: the event written into the query's own fp.probes; Err is
\* the failed assert, or the TypeError of an item assignment to None
QuerySide(q, g, t, v) ==
  IF t = R /\ v = N THEN [ok |-> TRUE, q |-> Put(q, g, None)]
  ELSE IF t \in Exceptions THEN [ok |-> TRUE, q |-> q]
  ELSE IF t \notin fp_known_tests[g] THEN Err
  ELSE IF ~q[g].present THEN Err
  ELSE [ok |-> TRUE, q |-> Put(q, g, Present(Put(q[g].tests, t, v)))]

AddScore(coll, k, n) == [coll EXCEPT ![k].score = @ + n]

\* lines 670-678: the loop over the collection, from its k-th fingerprint;
\* Err is the KeyError of matchpoints[group_name][test_name]; a fingerprint
\* whose dictionary lacks the test ends the loop (return)
RECURSIVE ScoreLoop(_, _, _, _, _)
ScoreLoop(coll, k, g, t, v) ==
  IF k > Len(coll) THEN [ok |-> TRUE, coll |-> coll]
  ELSE IF g \notin DOMAIN matchpoints THEN Err
  ELSE IF t \notin DOMAIN matchpoints[g] THEN Err
  ELSE IF ~coll[k].probes[g].present
  THEN IF t = R /\ v = N
       THEN ScoreLoop(AddScore(coll, k, SumValues(matchpoints[g])), k + 1, g, t, v)
       ELSE ScoreLoop(coll, k + 1, g, t, v)
  ELSE IF t \notin DOMAIN coll[k].probes[g].tests
  THEN [ok |-> TRUE, coll |-> coll]
  ELSE IF Holds(coll[k].probes[g].tests[t], v)
  THEN ScoreLoop(AddScore(coll, k, matchpoints[g][t]), k + 1, g, t, v)
  ELSE ScoreLoop(coll, k + 1, g, t, v)

handle_test(q, coll, g, t, v) ==
  IF g = "SCAN" THEN [ok |-> TRUE, q |-> q, coll |-> coll]
  ELSE LET qs == QuerySide(q, g, t, v)
       IN IF ~qs.ok THEN Err
          ELSE LET sl == ScoreLoop(coll, 1, g, t, v)
               IN IF ~sl.ok THEN Err
                  ELSE [ok |-> TRUE, q |-> qs.q, coll |-> sl.coll]

(***************************************************************************)
(* The engine: parse_fp reads the query and hands each test to handle_test *)
(***************************************************************************)
MaxFps == 2
MaxEvents == 2

\* a record of the corpus made of the given group lines
RECURSIVE ProbesOf(_, _)
ProbesOf(ls, probes) ==
  IF ls = <<>> THEN [ok |-> TRUE, probes |-> probes]
  ELSE LET r == LoadGroup(probes, ls[1].group, ls[1].tests)
       IN IF ~r.ok THEN Err ELSE ProbesOf(Tail(ls), r.probes)

\* the probes of the fingerprints the loader registers from RefGroupLines
RefProbes ==
  {ProbesOf(<<l1, l2>>, <<>>).probes :
     <<l1, l2>> \in {p \in RefGroupLines \X RefGroupLines :
                       /\ ProbesOf(<<p[1], p[2]>>, <<>>).ok
                       /\ AllKnownGroups(ProbesOf(<<p[1], p[2]>>, <<>>).probes)}}

FpNames == <<"A", "B", "C", "D">>

Collections ==
  UNION {{[k \in 1..n |-> [name |-> FpNames[k], probes |-> ps[k], score |-> 0]] :
            ps \in [1..n -> RefProbes]} : n \in 0..MaxFps}

\* the blocks the engine's point tables are read from: a full table, one
\* with a negative entry and without the OPS entries, and one of a single
\* entry
MatchBlocks ==
  { <<MpLine("T1", <<Eq(R, <<"2">>), Eq(DF, <<"3">>)>>),
      MpLine("OPS", <<Eq(O1, <<"5">>)>>), MpBlank>>,
    <<MpLine("T1", <<Eq(R, <<"-", "2">>), Eq(DF, <<"3">>)>>), MpBlank>>,
    <<MpLine("T1", <<Eq(R, <<"2">>)>>), MpBlank>> }

QueryGroups == {"SCAN", "OPS", "T1"}
\* a test of another group stands for every test unknown in the group read
QueryTests == {R, DF, O1, W0}
QueryValues == {Y, N}

InitMatch ==
  /\ pc = "match"
  /\ \E b \in MatchBlocks :
       /\ get_matchpoints(b).ok
       /\ block = b
       /\ matchpoints = get_matchpoints(b).matchpoints
       /\ max_points = get_matchpoints(b).max_points
       /\ have_mp = TRUE
  /\ fingerprints \in Collections
  /\ ExprIdle /\ LoadIdle /\ MatchIdle /\ RankIdle

\* lines 700-705: a group name read up to "("
BeginGroup(g) ==
  /\ pc = "match"
  /\ group_name = ""
  /\ IF g \in DOMAIN qprobes \/ g \notin DOMAIN fp_known_tests
     THEN pc' = "error" /\ UNCHANGED <<qprobes, group_name>>
     ELSE /\ qprobes' = Put(qprobes, g, Present(<<>>))
          /\ group_name' = g
          /\ pc' = "match"
  /\ UNCHANGED <<ev, nev, missed, fingerprints, exprVars, loadVars, tableVars,
                 rankVars>>

\* some fingerprint's dictionary for the group lacks the test
SomeLacks(coll, g, t) ==
  \E k \in 1..Len(coll) :
    coll[k].probes[g].present /\ t \notin DOMAIN coll[k].probes[g].tests

\* lines 709-713: a test name read up to "=", its value up to "%" or ")",
\* and handle_test on them
ReadTest(t, v, sep) ==
  /\ pc = "match"
  /\ group_name # ""
  /\ nev < MaxEvents
  /\ ev' = <<group_name, t, v>>
  /\ nev' = nev + 1
  /\ LET r == handle_test(qprobes, fingerprints, group_name, t, v)
     IN IF r.ok
        THEN /\ qprobes' = r.q
             /\ fingerprints' = r.coll
             /\ group_name' = IF sep = ")" THEN "" ELSE group_name
             /\ pc' = "match"
        ELSE pc' = "error" /\ UNCHANGED <<qprobes, fingerprints, group_name>>
  /\ missed' = (missed \/ (group_name # "SCAN" /\ group_name \in KnownGroups
                           /\ SomeLacks(fingerprints, group_name, t)))
  /\ UNCHANGED <<exprVars, loadVars, tableVars, rankVars>>

\* ")" met where a test name is read (an empty body, or nothing after "%"):
\* read_until raises RuntimeError with the empty name read so far
ReadEmptyTest ==
  /\ pc = "match"
  /\ group_name # ""
  /\ ev' = <<group_name, <<>>, <<>>>>
  /\ pc' = "error"
  /\ UNCHANGED <<qprobes, group_name, nev, missed, fingerprints, exprVars,
                 loadVars, tableVars, rankVars>>

\* the end of the input: ValueError, caught only where a group name is read
EndQuery ==
  /\ pc = "match"
  /\ pc' = IF group_name = "" THEN "matched" ELSE "error"
  /\ UNCHANGED <<fingerprints, exprVars, loadVars, tableVars, matchVars, rankVars>>

NextMatch ==
  \/ \E g \in QueryGroups : BeginGroup(g)
  \/ \E t \in QueryTests \cup {V}, v \in QueryValues, sep \in {"%", ")"} :
       ReadTest(t, v, sep)
  \/ ReadEmptyTest
  \/ EndQuery

SpecMatch == InitMatch /\ [][NextMatch]_vars

(***************************************************************************)
(* The engine's claims.  A step that hands an event of a scored group to   *)
(* handle_test and returns from it is Scored; ev' is the event.            *)
(***************************************************************************)
Scored == nev' = nev + 1 /\ pc' = "match" /\ ev'[1] # "SCAN"

PredicateGain(f, e) ==
  IF Holds(f.probes[e[1]].tests[e[2]], e[3]) THEN matchpoints[e[1]][e[2]] ELSE 0

AbsentGain(e) ==
  IF e[2] = R /\ e[3] = N THEN SumValues(matchpoints[e[1]]) ELSE 0

HasTest(f, e) ==
  f.probes[e[1]].present /\ e[2] \in DOMAIN f.probes[e[1]].tests

LacksTest(f, e) ==
  f.probes[e[1]].present /\ e[2] \notin DOMAIN f.probes[e[1]].tests

\* what section 4.4 awards a fingerprint for an event
Gain(f, e) ==
  IF ~f.probes[e[1]].present THEN AbsentGain(e)
  ELSE IF LacksTest(f, e) THEN 0
  ELSE PredicateGain(f, e)

\* C1: an event adds MatchPoints[group][test] to the score of every
\* fingerprint whose dictionary for the group holds the test and whose
\* predicate holds on the value, and nothing when the predicate does not
\* hold, wherever the fingerprint is in the collection.
C1_PresentScored ==
  [][Scored =>
       \A k \in 1..Len(fingerprints) :
         HasTest(fingerprints[k], ev') =>
           fingerprints'[k].score
             = fingerprints[k].score + PredicateGain(fingerprints[k], ev')]_vars

\* C2: an event whose test a fingerprint's dictionary lacks leaves that
\* fingerprint's score as it was and does not abort the run, and every later
\* event is still scored for every fingerprint.
C2_SkipAndContinue ==
  [][/\ Scored =>
          \A k \in 1..Len(fingerprints) :
            /\ LacksTest(fingerprints[k], ev') =>
                 fingerprints'[k].score = fingerprints[k].score
            /\ missed =>
                 fingerprints'[k].score
                   = fingerprints[k].score + Gain(fingerprints[k], ev')
     /\ ( /\ nev' = nev + 1
          /\ ev'[1] \in KnownGroups
          /\ SomeLacks(fingerprints, ev'[1], ev'[2])
          /\ QuerySide(qprobes, ev'[1], ev'[2], ev'[3]).ok
          /\ ev'[1] \in DOMAIN matchpoints
          /\ ev'[2] \in DOMAIN matchpoints[ev'[1]] ) => pc' = "match"]_vars

\* C3: an event adds the sum of the group's points to the score of every
\* fingerprint whose entry for the group is None exactly when the event is
\* R=N, and leaves it as it was on any other event of the group.
C3_AbsentScored ==
  [][Scored =>
       \A k \in 1..Len(fingerprints) :
         ~fingerprints[k].probes[ev'[1]].present =>
           fingerprints'[k].score = fingerprints[k].score + AbsentGain(ev')]_vars

\* C4: every score starts at 0 and no step of a matching run lowers it,
\* whatever table get_matchpoints returned.
C4_Monotone ==
  [][\A k \in 1..Len(fingerprints) :
       fingerprints'[k].score >= fingerprints[k].score]_vars

\* the group being read has had no test read yet (a group is read once)
FreshGroup == group_name \in KnownGroups /\ (ev = <<>> \/ ev[1] # group_name)

\* the step reads ")" right after "(": the body of the group is empty
EmptyBody == FreshGroup /\ nev' = nev /\ ev' = <<group_name, <<>>, <<>>>>

\* the step reads R=N as the first test of the group
AbsentBody == FreshGroup /\ nev' = nev + 1 /\ ev' = <<group_name, R, N>>

\* C12: for every known group, the body R=N and the empty body GROUP() are
\* both accepted: the run goes on, the query's entry for the group becomes
\* None, and the collection is scored as by the event (group, R, N).
C12_AbsentSignal ==
  [][(AbsentBody \/ EmptyBody) =>
       /\ pc' = "match"
       /\ qprobes' = Put(qprobes, group_name, None)
       /\ handle_test(qprobes, fingerprints, group_name, R, N).ok =>
            fingerprints'
              = handle_test(qprobes, fingerprints, group_name, R, N).coll]_vars

\* the table has no entry for the event's group and test
NoPoints(e) ==
  e[1] \notin DOMAIN matchpoints \/ e[2] \notin DOMAIN matchpoints[e[1]]

\* C13: an event of a scored group whose (group, test) has no entry in the
\* point table aborts the run, whatever the collection holds (nothing
\* included), and no score is changed by it.
C13_MissingPointsFatal ==
  [][(nev' = nev + 1 /\ ev'[1] \in KnownGroups /\ NoPoints(ev')) =>
       (pc' = "error" /\ fingerprints' = fingerprints)]_vars

\* C16: after a matching run over a query that parse_fp read to its end
\* without aborting, a query that repeats a test name inside a group
\* included, every fingerprint's score is between 0 and max_points.
C16_ScoreBounded ==
  pc = "matched" =>
    \A k \in 1..Len(fingerprints) :
      0 <= fingerprints[k].score /\ fingerprints[k].score <= max_points

(***************************************************************************)
(* The ranking of __main__ (lines 739-744)                                 *)
(***************************************************************************)
\* sorted(coll, key=lambda x: x.score): stable, ascending
RECURSIVE Insert(_, _)
Insert(f, srt) ==
  IF srt = <<>> THEN <<f>>
  ELSE IF srt[Len(srt)].score <= f.score THEN Append(srt, f)
  ELSE Append(Insert(f, SubSeq(srt, 1, Len(srt) - 1)), srt[Len(srt)])

RECURSIVE Sorted(_)
Sorted(coll) ==
  IF coll = <<>> THEN <<>>
  ELSE Insert(coll[Len(coll)], Sorted(SubSeq(coll, 1, Len(coll) - 1)))

Reversed(q) == [k \in 1..Len(q) |-> q[Len(q) + 1 - k]]

\* range(10)
TopN == 10

MaxCount == 11

RankScores == {10, 30}

\* the ranking reads names and scores only: every fingerprint ranked has the
\* probes of a record of two absent groups
RankProbes == [g \in KnownGroups |-> None]

ScoredCollections ==
  UNION {{[k \in 1..n |-> [name |-> k, probes |-> RankProbes, score |-> sc[k]]] :
            sc \in [1..n -> RankScores]} : n \in 0..MaxCount}
  \cup {[k \in 1..3 |-> [name |-> k, probes |-> RankProbes,
                         score |-> <<30, 20, 10>>[k]]]}

InitRank ==
  /\ pc = "matched"
  /\ fingerprints \in ScoredCollections
  /\ block = <<>> /\ matchpoints = <<>> /\ have_mp = TRUE
  /\ max_points \in {0, 30}
  /\ ExprIdle /\ LoadIdle /\ MatchIdle /\ RankIdle

\* line 740
SortByScore ==
  /\ pc = "matched"
  /\ fps' = Reversed(Sorted(fingerprints))
  /\ i' = 0
  /\ report' = <<>>
  /\ pc' = "rank"
  /\ UNCHANGED <<fingerprints, exprVars, loadVars, tableVars, matchVars>>

\* lines 743-744, one pass of the loop: fps[i] is an IndexError past the end
\* of the list, the division a ZeroDivisionError when max_points is 0
PrintMatch ==
  /\ pc = "rank"
  /\ i < TopN
  /\ IF i + 1 > Len(fps) \/ max_points = 0
     THEN pc' = "error" /\ UNCHANGED <<i, report>>
     ELSE /\ report' = Append(report, [score |-> fps[i + 1].score,
                                       name |-> fps[i + 1].name])
          /\ i' = i + 1
          /\ pc' = "rank"
  /\ UNCHANGED <<fps, fingerprints, exprVars, loadVars, tableVars, matchVars>>

EndRanking ==
  /\ pc = "rank"
  /\ i = TopN
  /\ pc' = "ranked"
  /\ UNCHANGED <<fps, i, report, fingerprints, exprVars, loadVars, tableVars,
                 matchVars>>

NextRank == SortByScore \/ PrintMatch \/ EndRanking

SpecRank == InitRank /\ [][NextRank]_vars

\* C8: for a collection of any size the ranking ends with a report of exactly
\* min(10, count) fingerprints in non-increasing score order, none of the
\* unlisted ones scoring more than a listed one; scores 30, 20, 10 are
\* reported as three entries in that order.
C8_Ranking ==
  (max_points # 0 /\ pc \in {"ranked", "error"}) =>
    /\ pc = "ranked"
    /\ Len(report) = Min(TopN, Len(fingerprints))
    /\ \A a, b \in 1..Len(report) : a <= b => report[a].score >= report[b].score
    /\ \A a \in 1..Len(report), b \in 1..Len(fps) :
         b > Len(report) => fps[b].score <= report[a].score

====
